---------------------------- MODULE Spec2Model ----------------------------
(***************************************************************************)
(* Attendance management: the face service (face_recog.py) and the         *)
(* attendance handlers of app.py.                                           *)
(*                                                                          *)
(* Abstractions of the data (the control flow is the code's):               *)
(*  - an embedding is [shape, vec]: shape is the true array length (512 for *)
(*    Facenet512, 4096 for the 64x64 grayscale fallback) and vec is a short *)
(*    integer vector standing for the array's content;                      *)
(*  - distances are compared in exact real arithmetic (floating point       *)
(*    rounding is not modelled); the 1e-8 added to the denominator is kept  *)
(*    as a first-order infinitesimal;                                       *)
(*  - an attendance row keeps the date of its timestamp, the only part the  *)
(*    handlers read back.                                                   *)
(***************************************************************************)
EXTENDS Integers, Sequences, FiniteSets, Bags, TLC

VARIABLES
    hasCv2,      \* _HAS_CV2: the cv2 import succeeded
    hasNN,       \* FaceService.has_nn = _HAS_DEEPFACE
    supabase,    \* TRUE iff a supabase client is configured
    local,       \* data/embeddings/<id>.npy : student id -> embedding or NoEmb
    remote,      \* rows of table face_embeddings : student id -> embedding or NoEmb
    cache,       \* FaceService._emb_cache : [loaded, items]
    students,    \* ids of the rows of table students
    timetable,   \* rows of table student_timetables
    ledger,      \* rows of table attendance (a bag: the primary key is left out)
    now,         \* datetime.now() : [day, time], time in minutes after midnight
    session,     \* the client's session : [student_id, attendance_authorized]
    last,        \* observation of the last call: its inputs, locals and answer
    threads      \* the calls in flight in request threads, with their locals

vars == <<hasCv2, hasNN, supabase, local, remote, cache, students, timetable,
          ledger, now, session, last, threads>>

---------------------------------------------------------------------------
(* Bounds *)

NStudents == 2
MaxFrames == 4
MaxLedger == 2
MaxSlots == 2
MaxDay == 1
NSubjects == 2

---------------------------------------------------------------------------
(* Values *)

\* Optional[int] None, and the falsy id of `if not student_id`
NoId == 0

StudentIds == 1..NStudents

\* np.ndarray lengths of the two extractor variants
NNShape == 512
FallbackShape == 4096

\* Contents of an embedding: (1,0).(4,3) has cosine 0.8, (4,3).(0,1) has
\* cosine 0.6, (1,0).(0,1) has cosine 0.
Vecs == {<<1, 0>>, <<4, 3>>, <<0, 1>>}

NoEmb == [shape |-> 0, vec |-> <<0, 0>>]

Embs == [shape : {NNShape, FallbackShape}, vec : Vecs]

\* a row of the table whose embedding is null or []: np.array([]) has size 0
EmptyEmb == [shape |-> 0, vec |-> <<>>]

\* self._emb_cache = None
EmptyCache == [loaded |-> FALSE, items |-> <<>>]

\* self._emb_cache = {}
NewCache == [loaded |-> TRUE, items |-> <<>>]

\* An image as the extractor sees it: "face" (DeepFace returns an embedding),
\* "raise" (DeepFace raises), "nosig" (DeepFace returns nothing usable),
\* "undecodable" (cv2.imread / cv2.imdecode returns None).
Undecodable == [kind |-> "undecodable", vec |-> <<0, 0>>]
Raising == [kind |-> "raise", vec |-> <<1, 0>>]

Images == [kind : {"face", "nosig"}, vec : Vecs] \cup {Raising}

Frames == Images \cup {Undecodable}

\* default parameters of predict_student_id, in hundredths
ThresholdNN == 35
ThresholdFallback == 60

---------------------------------------------------------------------------
(* face_recog.py : FaceService *)

Dot(u, v) == u[1] * v[1] + u[2] * v[2]

Sgn(x) == IF x > 0 THEN 1 ELSE IF x < 0 THEN -1 ELSE 0

\* best_score = float('inf')
InfScore == [inf |-> TRUE, num |-> 0, den2 |-> 0]

\* dist = 1.0 - num / den with num = dot(ref, e) and
\* den = norm(ref) * norm(e) + 1e-8; den2 is (norm(ref) * norm(e))^2.
CosineScore(ref, e) ==
    [inf |-> FALSE, num |-> Dot(ref.vec, e.vec),
     den2 |-> Dot(ref.vec, ref.vec) * Dot(e.vec, e.vec)]

\* num / (sqrt(den2) + eps) of s is greater than that of t
CosGreater(s, t) ==
    LET ds == IF s.den2 = 0 THEN 1 ELSE s.den2
        dt == IF t.den2 = 0 THEN 1 ELSE t.den2
        ps == Sgn(s.num) * s.num * s.num * dt
        pt == Sgn(t.num) * t.num * t.num * ds
    IN  \/ ps > pt
        \/ /\ ps = pt
           /\ \/ s.num > 0 /\ s.den2 > t.den2
              \/ s.num < 0 /\ s.den2 < t.den2

\* dist < best_score
ScoreLess(s, t) ==
    IF s.inf THEN FALSE
    ELSE IF t.inf THEN TRUE
    ELSE CosGreater(s, t)

\* best_score > threshold, threshold = thr / 100 < 1
ScoreAbove(s, thr) ==
    LET c == 100 - thr
    IN  IF s.inf THEN TRUE
        ELSE \/ s.num <= 0
             \/ 10000 * s.num * s.num <= c * c * s.den2

\* _compute_embedding(img_bgr) of a decoded image
ComputeEmbedding(img) ==
    IF ~hasCv2 THEN NoEmb
    ELSE IF hasNN /\ img.kind = "face" THEN [shape |-> NNShape, vec |-> img.vec]
    ELSE IF hasNN /\ img.kind = "raise" THEN NoEmb
    ELSE [shape |-> FallbackShape, vec |-> img.vec]

\* EnrollFromPath where a failure of the upsert fails the enrolment
EnrollRemoteFatal(photo, student_id, saveFails, upsertFails) ==
    LET e == ComputeEmbedding(photo)
        unchanged == [ok |-> FALSE, local |-> local, remote |-> remote, cache |-> cache]
    IN  IF ~hasCv2 \/ photo = Undecodable THEN unchanged
        ELSE IF e = NoEmb THEN unchanged
        ELSE [ok |-> ~(supabase /\ upsertFails),
              local |-> IF saveFails THEN local
                        ELSE [local EXCEPT ![student_id] = e],
              remote |-> IF supabase /\ ~upsertFails
                         THEN [remote EXCEPT ![student_id] = e]
                         ELSE remote,
              cache |-> IF supabase /\ ~upsertFails
                        THEN EmptyCache
                        ELSE cache]

\* enroll_from_path(img_path, student_id): photo is the file at img_path
\* (Undecodable: cv2.imread returns None, or the path is empty); saveFails:
\* np.save raises; upsertFails: the supabase upsert raises.
\* The answer: [ok, local, remote, cache].
EnrollFromPath(photo, student_id, saveFails, upsertFails) ==
    LET e == ComputeEmbedding(photo)
        unchanged == [ok |-> FALSE, local |-> local, remote |-> remote, cache |-> cache]
    IN  IF ~hasCv2 \/ photo = Undecodable THEN unchanged
        ELSE IF e = NoEmb THEN unchanged
        ELSE [ok |-> TRUE,
              local |-> IF saveFails THEN local
                        ELSE [local EXCEPT ![student_id] = e],
              remote |-> IF supabase /\ ~upsertFails
                         THEN [remote EXCEPT ![student_id] = e]
                         ELSE remote,
              cache |-> IF supabase /\ ~upsertFails
                        THEN EmptyCache
                        ELSE cache]

\* the ids that hold an embedding in a store
Keys(store) == {s \in StudentIds : store[s] # NoEmb}

\* the enumerations of a finite set: the order in which a select or a glob
\* returns its rows
Orders(S) ==
    {o \in [1..Cardinality(S) -> S] :
        \A i, j \in 1..Cardinality(S) : i # j => o[i] # o[j]}

\* RebuildSource without the `except` of line 117: a select that raises
\* leaves nothing to load
RebuildSourceNoFallback(readFails) ==
    IF supabase THEN (IF readFails THEN [s \in StudentIds |-> NoEmb] ELSE remote)
    ELSE local

\* the store the cache is rebuilt from: the supabase table when a client is
\* configured and the select succeeds, the local files otherwise
RebuildSource(readFails) ==
    IF supabase /\ ~readFails THEN remote ELSE local

\* lines 109-114 and 119-129: the rows put in the dict, in the order ord of
\* the select or the glob; a row of the table is kept `if emb.size > 0`
LoadRows(readFails, ord) ==
    LET all == [i \in 1..Len(ord) |->
                   [sid |-> ord[i], emb |-> RebuildSource(readFails)[ord[i]]]]
        Kept(row) == ~(supabase /\ ~readFails /\ row.emb = EmptyEmb)
    IN  SelectSeq(all, Kept)

\* `if self._emb_cache is None:` the dict filled in the order ord
LoadCache(c, readFails, ord) ==
    IF c.loaded THEN c
    ELSE [loaded |-> TRUE, items |-> LoadRows(readFails, ord)]

NoBest == [id |-> NoId, score |-> InfScore, is_cosine |-> FALSE, raised |-> FALSE]

\* `ref - e` raises ValueError: the shapes do not broadcast
Unbroadcastable == [raises |-> TRUE, dist |-> InfScore, is_cosine |-> FALSE]

\* Distance without the shape test: every pair is compared by cosine distance
DistanceAnyShape(ref, e) ==
    [raises |-> FALSE, dist |-> CosineScore(ref, e), is_cosine |-> TRUE]

\* lines 137-144: the distance of a reference to the query. Equal shapes are
\* compared by cosine distance; for unequal shapes `ref - e` of a (512,) and
\* a (4096,) array raises ValueError.
Distance(ref, e) ==
    IF ref.shape = e.shape
    THEN [raises |-> FALSE, dist |-> CosineScore(ref, e), is_cosine |-> TRUE]
    ELSE Unbroadcastable

\* ScanStep with the test `dist <= best_score`
ScanStepLastOfTies(best, item, e) ==
    LET d == Distance(item.emb, e)
    IN  IF d.raises THEN best
        ELSE IF ~ScoreLess(best.score, d.dist)
             THEN [id |-> item.sid, score |-> d.dist, is_cosine |-> d.is_cosine,
                   raised |-> FALSE]
             ELSE best

\* one iteration of `for sid, ref in list(self._emb_cache.items())`; an
\* exception of the body is caught: `except Exception: continue`
ScanStep(best, item, e) ==
    LET d == Distance(item.emb, e)
    IN  IF d.raises THEN best
        ELSE IF ScoreLess(d.dist, best.score)
             THEN [id |-> item.sid, score |-> d.dist, is_cosine |-> d.is_cosine,
                   raised |-> FALSE]
             ELSE best

RECURSIVE Scan(_, _, _, _)
Scan(items, e, i, best) ==
    IF i > Len(items) THEN best
    ELSE Scan(items, e, i + 1, ScanStep(best, items[i], e))

\* Accept without the thresholds: the nearest candidate is returned
AcceptNoThreshold(best) == best.id

\* lines 152-162: the threshold of the metric of the best candidate
Accept(best) ==
    IF best.id = NoId THEN NoId
    ELSE IF best.is_cosine
         THEN IF ScoreAbove(best.score, ThresholdNN) THEN NoId ELSE best.id
         ELSE IF ScoreAbove(best.score, ThresholdFallback) THEN NoId ELSE best.id

\* predict_student_id(frame_bgr) on cache c. The answer:
\* [cache, result, e, best]; inputs readFails and ord are read only when the
\* cache is rebuilt.
PredictStudentId(c, img, readFails, ord) ==
    LET e == ComputeEmbedding(img)
    IN  IF e = NoEmb
        THEN [cache |-> c, result |-> NoId, e |-> NoEmb, best |-> NoBest]
        ELSE LET c2 == LoadCache(c, readFails, ord)
                 best == Scan(c2.items, e, 1, NoBest)
             IN  [cache |-> c2, result |-> Accept(best), e |-> e, best |-> best]

---------------------------------------------------------------------------
(* app.py : the database, the clock and the session *)

\* rows of table subjects (the app only ever adds subjects)
SubjectIds == 1..NSubjects

\* clock times of the model, in minutes after midnight:
\* 09:00, 09:30, 10:00, 11:00, 12:00
TimeChoices == {540, 570, 600, 660, 720}

\* now.strftime('%H:%M'), as the digits of the string (the colon, at the
\* same place in every string, is left out)
Strftime(t) ==
    <<(t \div 60) \div 10, (t \div 60) % 10, (t % 60) \div 10, (t % 60) % 10>>

\* Python's str <= str : lexicographic order
RECURSIVE StrLeqFrom(_, _, _)
StrLeqFrom(a, b, i) ==
    IF i > Len(a) THEN TRUE
    ELSE IF i > Len(b) THEN FALSE
    ELSE IF a[i] < b[i] THEN TRUE
    ELSE IF a[i] > b[i] THEN FALSE
    ELSE StrLeqFrom(a, b, i + 1)

StrLeq(a, b) == StrLeqFrom(a, b, 1)

\* now.weekday(): day 0 of the model is a Monday
Weekday(day) == day % 7

NoSlot == [student_id |-> NoId, subject_id |-> NoId, weekday |-> 0,
           start_time |-> <<>>, end_time |-> <<>>]

\* session.clear()
EmptySession == [student_id |-> NoId, attendance_authorized |-> FALSE]

\* no request thread is inside predict_student_id
NoThreads == <<>>

\* the observation of a call, before the call fills it in
Blank ==
    [op |-> "init", sid |-> NoId, ok |-> FALSE, warm |-> FALSE, e |-> NoEmb,
     result |-> NoId, best |-> NoBest, preds |-> <<>>, submitted |-> 0,
     decoded |-> 0, embedded |-> 0, status |-> 0, message |-> "",
     slot |-> NoSlot, subject_id |-> NoId]

---------------------------------------------------------------------------
(* app.py : attendance_recognize *)

\* PredictAll without `if img is None: continue`: a frame that does not
\* decode adds a no-match verdict
RECURSIVE PredictAllNoSkip(_, _, _, _, _)
PredictAllNoSkip(frames, i, acc, readFails, ord) ==
    IF i > Len(frames) THEN acc
    ELSE IF frames[i] = Undecodable
         THEN PredictAllNoSkip(frames, i + 1,
                               [acc EXCEPT !.preds = Append(@, NoId)],
                               readFails, ord)
         ELSE LET r == PredictStudentId(acc.cache, frames[i], readFails, ord)
              IN  PredictAllNoSkip(frames, i + 1,
                             [cache |-> r.cache,
                              preds |-> Append(acc.preds, r.result),
                              decoded |-> acc.decoded + 1,
                              embedded |-> acc.embedded
                                           + (IF r.e = NoEmb THEN 0 ELSE 1)],
                             readFails, ord)

\* lines 554-562: the loop over the uploaded files. The answer:
\* [cache, preds, decoded, embedded].
RECURSIVE PredictAll(_, _, _, _, _)
PredictAll(frames, i, acc, readFails, ord) ==
    IF i > Len(frames) THEN acc
    ELSE IF frames[i] = Undecodable
         THEN PredictAll(frames, i + 1, acc, readFails, ord)
         ELSE LET r == PredictStudentId(acc.cache, frames[i], readFails, ord)
              IN  PredictAll(frames, i + 1,
                             [cache |-> r.cache,
                              preds |-> Append(acc.preds, r.result),
                              decoded |-> acc.decoded + 1,
                              embedded |-> acc.embedded
                                           + (IF r.e = NoEmb THEN 0 ELSE 1)],
                             readFails, ord)

\* Counter(preds): the counts, keyed in order of first occurrence
RECURSIVE CounterFrom(_, _, _)
CounterFrom(preds, i, cnt) ==
    IF i > Len(preds) THEN cnt
    ELSE LET at == {k \in 1..Len(cnt) : cnt[k].key = preds[i]}
         IN  IF at = {}
             THEN CounterFrom(preds, i + 1,
                              Append(cnt, [key |-> preds[i], count |-> 1]))
             ELSE LET k == CHOOSE k \in at : TRUE
                  IN  CounterFrom(preds, i + 1,
                                  [cnt EXCEPT ![k].count = cnt[k].count + 1])

\* cnt.most_common(1)[0]: the first entry, in key order, of the largest count
RECURSIVE MostCommonFrom(_, _, _)
MostCommonFrom(cnt, i, best) ==
    IF i > Len(cnt) THEN best
    ELSE MostCommonFrom(cnt, i + 1,
                        IF cnt[i].count > best.count THEN cnt[i] ELSE best)

MostCommon(preds) ==
    LET cnt == CounterFrom(preds, 1, <<>>)
    IN  MostCommonFrom(cnt, 2, cnt[1])

\* Majority with the test `best_count < len(preds) // 2`
MajorityAtLeastHalf(preds) ==
    LET top == MostCommon(preds)
    IN  IF top.key = NoId \/ top.count < (Len(preds) \div 2)
        THEN NoId
        ELSE top.key

\* Majority without the count test: the most common verdict is accepted
MajorityPlurality(preds) ==
    LET top == MostCommon(preds)
    IN  IF top.key = NoId THEN NoId ELSE top.key

\* line 574: the majority test; the student id accepted, or NoId
Majority(preds) ==
    LET top == MostCommon(preds)
    IN  IF top.key = NoId \/ top.count <= (Len(preds) \div 2)
        THEN NoId
        ELSE top.key

\* lines 592-597: the rows of the student and weekday
SlotRows(student_id, weekday) ==
    {r \in timetable : r.student_id = student_id /\ r.weekday = weekday}

\* order_by(StudentTimetable.start_time): the enumerations in ascending
\* start_time (the database orders equal start times as it likes)
SortedRows(rows) ==
    {o \in Orders(rows) :
        \A i, j \in 1..Len(o) : i < j => StrLeq(o[i].start_time, o[j].start_time)}

\* FindSlot with the end of the interval left out: start <= now_str < end
RECURSIVE FindSlotEndExclusive(_, _, _)
FindSlotEndExclusive(rows, i, now_str) ==
    IF i > Len(rows) THEN NoSlot
    ELSE IF /\ StrLeq(rows[i].start_time, now_str)
            /\ StrLeq(now_str, rows[i].end_time)
            /\ now_str # rows[i].end_time
         THEN rows[i]
         ELSE FindSlotEndExclusive(rows, i + 1, now_str)

\* lines 603-607: the first row whose interval holds now_str
RECURSIVE FindSlot(_, _, _)
FindSlot(rows, i, now_str) ==
    IF i > Len(rows) THEN NoSlot
    ELSE IF StrLeq(rows[i].start_time, now_str) /\ StrLeq(now_str, rows[i].end_time)
         THEN rows[i]
         ELSE FindSlot(rows, i + 1, now_str)

\* Existing that looks only at the rows written by the face recognition
ExistingFaceOnly(student_id, subject_id, date) ==
    \E a \in BagToSet(ledger) :
        /\ a.student_id = student_id
        /\ a.subject_id = subject_id
        /\ a.date = date
        /\ a.method = "face"

\* lines 611-615: a ledger row of the student, subject and date
Existing(student_id, subject_id, date) ==
    \E a \in BagToSet(ledger) :
        /\ a.student_id = student_id
        /\ a.subject_id = subject_id
        /\ a.date = date

Att(student_id, subject_id, date, method) ==
    [student_id |-> student_id, subject_id |-> subject_id, date |-> date,
     method |-> method]

\* AddRow that adds the row twice
AddRowTwice(a) == ledger (+) SetToBag({a}) (+) SetToBag({a})

\* db.session.add(att); db.session.commit()
AddRow(a) == ledger (+) SetToBag({a})

\* StudentFound that takes every id for a student
StudentFoundAlways(student_id) == TRUE

\* lines 581-582: student = Student.query.get(student_id); `if not student`
StudentFound(student_id) == student_id \in students

\* POST /attendance/recognize with the uploaded files `frames`; readFails:
\* the supabase select raises.
AttendanceRecognize(frames, readFails) ==
    LET obs == [Blank EXCEPT !.op = "recognize", !.submitted = Len(frames),
                             !.warm = cache.loaded]
        same == UNCHANGED <<threads, hasCv2, hasNN, supabase, local, remote, students,
                            timetable, now, session>>
    IN
    /\ same
    /\ IF ~session.attendance_authorized
       THEN /\ last' = [obs EXCEPT !.status = 403, !.message = "unauthorized"]
            /\ UNCHANGED <<cache, ledger>>
       ELSE IF frames = <<>>
       THEN /\ last' = [obs EXCEPT !.status = 400, !.message = "no file(s)"]
            /\ UNCHANGED <<cache, ledger>>
       ELSE IF ~hasCv2
       THEN /\ last' = [obs EXCEPT !.status = 500,
                                   !.message = "opencv-python not installed"]
            /\ UNCHANGED <<cache, ledger>>
       ELSE
       \E ord \in Orders(Keys(RebuildSource(readFails))) :
       LET p == PredictAll(frames, 1,
                           [cache |-> cache, preds |-> <<>>, decoded |-> 0,
                            embedded |-> 0],
                           readFails, ord)
           obs2 == [obs EXCEPT !.preds = p.preds, !.decoded = p.decoded,
                               !.embedded = p.embedded, !.status = 200]
       IN
       /\ cache' = p.cache
       /\ IF p.preds = <<>>
          THEN /\ last' = [obs2 EXCEPT !.message = "bad image frames"]
               /\ UNCHANGED ledger
          ELSE
          LET student_id == Majority(p.preds) IN
          IF student_id = NoId
          THEN /\ last' = [obs2 EXCEPT !.message = "face not recognized"]
               /\ UNCHANGED ledger
          ELSE IF ~StudentFound(student_id)
          THEN /\ last' = [obs2 EXCEPT !.result = student_id, !.status = 404,
                                       !.message = "student not found"]
               /\ UNCHANGED ledger
          ELSE
          \E rows \in SortedRows(SlotRows(student_id, Weekday(now.day))) :
          LET r == FindSlot(rows, 1, Strftime(now.time))
              subject_id == r.subject_id
              obs3 == [obs2 EXCEPT !.result = student_id, !.slot = r,
                                   !.subject_id = subject_id]
          IN
          IF subject_id # NoId /\ subject_id \in SubjectIds
          THEN IF ~Existing(student_id, subject_id, now.day)
               THEN /\ BagCardinality(ledger) < MaxLedger
                    /\ ledger' = AddRow(Att(student_id, subject_id, now.day, "face"))
                    /\ last' = [obs3 EXCEPT !.message = "attendance marked"]
               ELSE /\ last' = [obs3 EXCEPT !.message = "attendance already marked"]
                    /\ UNCHANGED ledger
          ELSE /\ last' = [obs3 EXCEPT !.message = "no matching class"]
               /\ UNCHANGED ledger

\* POST /attendance/manual. The form's `day` is read and not used. The
\* default database (sqlite) does not enforce the foreign keys.
ManualAttendance(student_id, day_given, subject_id) ==
    LET obs == [Blank EXCEPT !.op = "manual", !.sid = student_id,
                             !.subject_id = subject_id]
    IN
    /\ UNCHANGED <<threads, hasCv2, hasNN, supabase, local, remote, cache, students,
                   timetable, now, session>>
    /\ IF ~session.attendance_authorized
       THEN /\ last' = [obs EXCEPT !.status = 403, !.message = "unauthorized"]
            /\ UNCHANGED ledger
       ELSE IF student_id = NoId \/ ~day_given \/ subject_id = NoId
       THEN /\ last' = [obs EXCEPT !.status = 400,
                                   !.message = "Missing required fields"]
            /\ UNCHANGED ledger
       ELSE /\ BagCardinality(ledger) < MaxLedger
            /\ ledger' = AddRow(Att(student_id, subject_id, now.day, "manual"))
            /\ last' = [obs EXCEPT !.status = 200, !.ok = TRUE,
                                   !.message = "Attendance marked successfully"]

---------------------------------------------------------------------------
(* app.py : the other handlers that write the state read above *)

RECURSIVE MaxOf(_)
MaxOf(S) ==
    IF S = {} THEN 0
    ELSE LET x == CHOOSE x \in S : TRUE
             m == MaxOf(S \ {x})
         IN  IF x > m THEN x ELSE m

\* the id sqlite gives the next row of students: the largest id plus one
NextStudentId == MaxOf(students) + 1

\* POST /register/student with a photo: the row is added, then
\* face_service.enroll_from_path(photo_path, student.id)
RegisterStudent(photo, saveFails, upsertFails) ==
    LET id == NextStudentId
        en == EnrollFromPath(photo, id, saveFails, upsertFails)
    IN  /\ id <= NStudents
        /\ students' = students \cup {id}
        /\ local' = en.local
        /\ remote' = en.remote
        /\ cache' = en.cache
        /\ last' = [Blank EXCEPT !.op = "enroll", !.sid = id, !.ok = en.ok,
                                 !.warm = cache.loaded,
                                 !.e = IF en.ok THEN ComputeEmbedding(photo) ELSE NoEmb]
        /\ UNCHANGED <<threads, hasCv2, hasNN, supabase, timetable, ledger, now, session>>

\* POST /login/student with the credentials of student sid
LoginStudent(sid) ==
    /\ sid \in students
    /\ session' = [session EXCEPT !.student_id = sid]
    /\ last' = [Blank EXCEPT !.op = "login", !.sid = sid]
    /\ UNCHANGED <<threads, hasCv2, hasNN, supabase, local, remote, cache, students,
                   timetable, ledger, now>>

\* POST /dashboard/student/profile with a new photo
StudentProfile(photo, saveFails, upsertFails) ==
    LET id == session.student_id
        en == EnrollFromPath(photo, id, saveFails, upsertFails)
    IN  /\ id # NoId
        /\ id \in students
        /\ local' = en.local
        /\ remote' = en.remote
        /\ cache' = en.cache
        /\ last' = [Blank EXCEPT !.op = "enroll", !.sid = id, !.ok = en.ok,
                                 !.warm = cache.loaded,
                                 !.e = IF en.ok THEN ComputeEmbedding(photo) ELSE NoEmb]
        /\ UNCHANGED <<threads, hasCv2, hasNN, supabase, students, timetable, ledger,
                       now, session>>

\* POST /dashboard/student/profile/delete; deleteFails: the supabase delete
\* of the embedding row raises
DeleteStudentProfile(deleteFails) ==
    LET id == session.student_id
    IN  /\ id # NoId
        /\ id \in students
        /\ timetable' = {r \in timetable : r.student_id # id}
        /\ ledger' = LET keep == {a \in BagToSet(ledger) : a.student_id # id}
                     IN  [a \in keep |-> ledger[a]]
        /\ local' = [local EXCEPT ![id] = NoEmb]
        /\ remote' = IF supabase /\ ~deleteFails
                     THEN [remote EXCEPT ![id] = NoEmb]
                     ELSE remote
        /\ students' = students \ {id}
        /\ session' = EmptySession
        /\ last' = [Blank EXCEPT !.op = "delete", !.sid = id,
                                 !.warm = cache.loaded]
        /\ UNCHANGED <<threads, hasCv2, hasNN, supabase, cache, now>>

\* AttendancePage without the test of the code
AttendancePageAnyCode(codeIsAdmin) ==
    /\ session' = [session EXCEPT !.attendance_authorized = TRUE]
    /\ last' = [Blank EXCEPT !.op = "attendance_page", !.ok = codeIsAdmin]
    /\ UNCHANGED <<threads, hasCv2, hasNN, supabase, local, remote, cache, students,
                   timetable, ledger, now>>

\* POST /attendance with the access code
AttendancePage(codeIsAdmin) ==
    /\ session' = IF codeIsAdmin
                  THEN [session EXCEPT !.attendance_authorized = TRUE]
                  ELSE session
    /\ last' = [Blank EXCEPT !.op = "attendance_page", !.ok = codeIsAdmin]
    /\ UNCHANGED <<threads, hasCv2, hasNN, supabase, local, remote, cache, students,
                   timetable, ledger, now>>

\* GET /logout
Logout ==
    /\ session' = EmptySession
    /\ last' = [Blank EXCEPT !.op = "logout"]
    /\ UNCHANGED <<threads, hasCv2, hasNN, supabase, local, remote, cache, students,
                   timetable, ledger, now>>

\* POST /dashboard/student/timetable, action 'add' (no overlap check)
StudentTimetableAdd(weekday, subject_id, start, end) ==
    LET id == session.student_id
    IN  /\ id # NoId
        /\ id \in students
        /\ Cardinality(timetable) < MaxSlots
        /\ timetable' = timetable \cup
              {[student_id |-> id, subject_id |-> subject_id, weekday |-> weekday,
                start_time |-> start, end_time |-> end]}
        /\ last' = [Blank EXCEPT !.op = "timetable_add", !.sid = id]
        /\ UNCHANGED <<threads, hasCv2, hasNN, supabase, local, remote, cache, students,
                       ledger, now, session>>

\* Predict where a rebuild from the table also writes the rows to the files
PredictWritesBack(img, readFails) ==
    \E ord \in Orders(Keys(RebuildSource(readFails))) :
        LET r == PredictStudentId(cache, img, readFails, ord)
        IN  /\ cache' = r.cache
            /\ local' = IF ~cache.loaded /\ r.cache.loaded /\ supabase /\ ~readFails
                        THEN remote ELSE local
            /\ last' = [Blank EXCEPT !.op = "predict", !.warm = cache.loaded,
                                     !.e = r.e, !.result = r.result,
                                     !.best = r.best]
            /\ UNCHANGED <<threads, hasCv2, hasNN, supabase, remote, students,
                           timetable, ledger, now, session>>

\* face_service.predict_student_id(img) on a decoded frame
Predict(img, readFails) ==
    \E ord \in Orders(Keys(RebuildSource(readFails))) :
        LET r == PredictStudentId(cache, img, readFails, ord)
        IN  /\ cache' = r.cache
            /\ last' = [Blank EXCEPT !.op = "predict", !.warm = cache.loaded,
                                     !.e = r.e, !.result = r.result,
                                     !.best = r.best]
            /\ UNCHANGED <<threads, hasCv2, hasNN, supabase, local, remote, students,
                           timetable, ledger, now, session>>

\* the process is started again: FaceService.__init__ sets _emb_cache = None;
\* the files, the tables and the client's session cookie stay
Restart ==
    /\ cache' = EmptyCache
    /\ last' = [Blank EXCEPT !.op = "restart"]
    /\ UNCHANGED <<threads, hasCv2, hasNN, supabase, local, remote, students, timetable,
                   ledger, now, session>>

\* time passes
Tick(day, time) ==
    /\ day <= MaxDay
    /\ \/ day = now.day /\ time > now.time
       \/ day = now.day + 1
    /\ now' = [day |-> day, time |-> time]
    /\ last' = [Blank EXCEPT !.op = "tick"]
    /\ UNCHANGED <<threads, hasCv2, hasNN, supabase, local, remote, cache, students,
                   timetable, ledger, session>>

---------------------------------------------------------------------------
(* Specifications *)

NoStore == [s \in StudentIds |-> NoEmb]

\* a fresh deployment: empty tables, no embedding files, no cache
Init ==
    /\ hasCv2 \in BOOLEAN
    /\ hasNN \in BOOLEAN
    /\ supabase \in BOOLEAN
    /\ local = NoStore
    /\ remote = NoStore
    /\ cache = EmptyCache
    /\ students = {}
    /\ timetable = {}
    /\ ledger = EmptyBag
    /\ now = [day |-> 0, time |-> 540]
    /\ session = EmptySession
    /\ last = Blank
    /\ threads = NoThreads

\* photos of the enrolments of Spec
EnrollPhotos ==
    {[kind |-> "face", vec |-> <<1, 0>>], [kind |-> "face", vec |-> <<4, 3>>],
     [kind |-> "nosig", vec |-> <<1, 0>>], Raising, Undecodable}

\* frames of the predictions of Spec
ProbeImages ==
    {[kind |-> "face", vec |-> <<1, 0>>], [kind |-> "face", vec |-> <<0, 1>>],
     [kind |-> "nosig", vec |-> <<4, 3>>], Raising}

\* the face service: enrolment, deletion and prediction
Next ==
    \/ \E photo \in EnrollPhotos, saveFails, upsertFails \in BOOLEAN :
          RegisterStudent(photo, saveFails, upsertFails)
    \/ \E sid \in StudentIds : LoginStudent(sid)
    \/ \E photo \in EnrollPhotos, saveFails, upsertFails \in BOOLEAN :
          StudentProfile(photo, saveFails, upsertFails)
    \/ \E deleteFails \in BOOLEAN : DeleteStudentProfile(deleteFails)
    \/ \E img \in ProbeImages, readFails \in BOOLEAN : Predict(img, readFails)
    \/ Restart

Spec == Init /\ [][Next]_vars

---------------------------------------------------------------------------
(* Specifications of the attendance handlers: a deployment with students
   enrolled and the attendance page unlocked *)

Face(v) == [kind |-> "face", vec |-> v]

\* frames of the face of student 1, of student 2 and of nobody enrolled
FaceOfStudent1 == Face(<<1, 0>>)
FaceOfStudent2 == Face(<<4, 3>>)
FaceOfNobody == Face(<<0, 1>>)

EnrolledFaces == {FaceOfStudent1, FaceOfStudent2}

PresentedFaces == {FaceOfStudent1, FaceOfStudent2, FaceOfNobody}

\* frames of the predict_student_id calls of the request threads
CallImages == {FaceOfStudent1, FaceOfStudent2, Raising}

\* the single frame of a recognition of student 1
OneFrame == <<FaceOfStudent1>>

\* bursts of SpecStore
StoreBursts == {<<FaceOfStudent1>>, <<FaceOfStudent2, Undecodable>>}

\* the new photo of a profile update
NewPhotos == {FaceOfStudent2}

\* student 1 enrolled with a photo of content (1,0), student 2 with (4,3)
EnrolledStore ==
    [s \in StudentIds |->
        IF s = 1 THEN ComputeEmbedding(FaceOfStudent1)
        ELSE IF s = 2 THEN ComputeEmbedding(FaceOfStudent2)
        ELSE NoEmb]

Slot(student_id, subject_id, weekday, start, end) ==
    [student_id |-> student_id, subject_id |-> subject_id, weekday |-> weekday,
     start_time |-> Strftime(start), end_time |-> Strftime(end)]

\* Monday: 09:00-10:00 subject 1, 10:00-11:00 subject 2, for both students
TwoSlots ==
    {Slot(s, 1, 0, 540, 600) : s \in {1, 2}} \cup {Slot(s, 2, 0, 600, 660) : s \in {1, 2}}

InitDeployed(nn, sb) ==
    /\ hasCv2 = TRUE
    /\ hasNN \in nn
    /\ supabase \in sb
    /\ students = {1, 2}
    /\ local = EnrolledStore
    /\ remote = IF supabase THEN EnrolledStore ELSE NoStore
    /\ cache = EmptyCache
    /\ ledger = EmptyBag
    /\ now = [day |-> 0, time |-> 540]
    /\ last = Blank
    /\ threads = NoThreads

\* the sequences over S of length at most n
SeqsUpTo(S, n) == UNION {[1..k -> S] : k \in 0..n}

\* the frames of a burst: matched to student 1, matched to student 2,
\* matched to nobody, extraction fails (with DeepFace), not decodable
BurstFrames == PresentedFaces \cup {Raising, Undecodable}

InitConsensus ==
    /\ InitDeployed(BOOLEAN, BOOLEAN)
    /\ timetable = TwoSlots
    /\ session = [student_id |-> NoId, attendance_authorized |-> TRUE]

\* one burst is submitted to the fresh deployment
NextConsensus ==
    /\ last.op = "init"
    /\ \E frames \in SeqsUpTo(BurstFrames, MaxFrames), readFails \in BOOLEAN :
          AttendanceRecognize(frames, readFails)

\* the consensus over a burst of up to MaxFrames frames
SpecConsensus == InitConsensus /\ [][NextConsensus]_vars

InitSchedule ==
    /\ InitDeployed({TRUE}, {FALSE})
    /\ timetable = {}
    /\ session = [student_id |-> 1, attendance_authorized |-> TRUE]

NextSchedule ==
    \/ \E weekday \in 0..1, subject_id \in SubjectIds,
          start \in {540, 600}, end \in {600, 660} :
          StudentTimetableAdd(weekday, subject_id, Strftime(start), Strftime(end))
    \/ \E day \in 0..MaxDay, time \in TimeChoices : Tick(day, time)
    \/ AttendanceRecognize(OneFrame, FALSE)

\* the schedule lookup of a recognised student over the timetables the
\* student can enter
SpecSchedule == InitSchedule /\ [][NextSchedule]_vars

InitLedger ==
    /\ InitDeployed({TRUE}, {FALSE})
    /\ timetable = TwoSlots
    /\ session = [student_id |-> NoId, attendance_authorized |-> TRUE]

NextLedger ==
    \/ \E f \in PresentedFaces :
          AttendanceRecognize(<<f>>, FALSE)
    \/ \E student_id \in 0..NStudents, day_given \in BOOLEAN,
          subject_id \in 0..NSubjects :
          ManualAttendance(student_id, day_given, subject_id)
    \/ \E day \in 0..MaxDay, time \in TimeChoices : Tick(day, time)

\* recognitions and manual entries, one after another, as time passes
SpecLedger == InitLedger /\ [][NextLedger]_vars

---------------------------------------------------------------------------
(* The face service together with the recognition handler: enrolments,
   deletions, predictions and recognitions on one deployment *)

InitStore == Init /\ hasCv2 = TRUE

NextStore ==
    \/ \E photo \in EnrolledFaces, saveFails, upsertFails \in BOOLEAN :
          RegisterStudent(photo, saveFails, upsertFails)
    \/ \E sid \in StudentIds : LoginStudent(sid)
    \/ \E deleteFails \in BOOLEAN : DeleteStudentProfile(deleteFails)
    \/ AttendancePage(TRUE)
    \/ \E readFails \in BOOLEAN : Predict(FaceOfStudent1, readFails)
    \/ \E frames \in StoreBursts,
          readFails \in BOOLEAN :
          AttendanceRecognize(frames, readFails)
    \/ Restart

SpecStore == InitStore /\ [][NextStore]_vars

---------------------------------------------------------------------------
(* The answers of the recognition handler: student 2 is logged in and may
   delete the profile while the recognitions go on *)

InitAnswers ==
    /\ InitDeployed({TRUE}, {FALSE})
    /\ timetable = TwoSlots
    /\ session = [student_id |-> 2, attendance_authorized |-> TRUE]

NextAnswers ==
    \/ \E f \in PresentedFaces :
          AttendanceRecognize(<<f>>, FALSE)
    \/ ManualAttendance(1, TRUE, 1)
    \/ DeleteStudentProfile(FALSE)
    \/ AttendancePage(TRUE)
    \/ \E day \in 0..MaxDay, time \in {600, 720} : Tick(day, time)

SpecAnswers == InitAnswers /\ [][NextAnswers]_vars

---------------------------------------------------------------------------
(* The rebuild of the cache: the files and the table hold any references,
   the table (which other clients of the database write too) also rows
   with an empty embedding *)

InitRebuild ==
    /\ hasCv2 = TRUE
    /\ hasNN \in BOOLEAN
    /\ supabase \in BOOLEAN
    /\ students = StudentIds
    /\ local \in [StudentIds -> {NoEmb, ComputeEmbedding(FaceOfStudent1),
                                 ComputeEmbedding(FaceOfStudent2)}]
    /\ remote \in IF supabase
                  THEN [StudentIds -> {NoEmb, EmptyEmb,
                                       ComputeEmbedding(FaceOfStudent1)}]
                  ELSE {NoStore}
    /\ cache = EmptyCache
    /\ timetable = {}
    /\ ledger = EmptyBag
    /\ now = [day |-> 0, time |-> 540]
    /\ session = EmptySession
    /\ last = Blank
    /\ threads = NoThreads

NextRebuild ==
    \/ \E img \in CallImages, readFails \in BOOLEAN :
          Predict(img, readFails)
    \/ Restart

SpecRebuild == InitRebuild /\ [][NextRebuild]_vars

---------------------------------------------------------------------------
(* The access code: a client that may or may not unlock the attendance
   page, logs in and out, and posts recognitions and manual entries *)

InitSession ==
    /\ InitDeployed({TRUE}, {FALSE})
    /\ timetable = TwoSlots
    /\ session = EmptySession

NextSession ==
    \/ \E codeIsAdmin \in BOOLEAN : AttendancePage(codeIsAdmin)
    \/ Logout
    \/ \E sid \in StudentIds : LoginStudent(sid)
    \/ \E f \in EnrolledFaces : AttendanceRecognize(<<f>>, FALSE)
    \/ \E subject_id \in SubjectIds : ManualAttendance(1, TRUE, subject_id)
    \/ \E time \in {600, 720} : Tick(0, time)

SpecSession == InitSession /\ [][NextSession]_vars

---------------------------------------------------------------------------
(* predict_student_id statement by statement, as the request threads of the
   server (app.run serves each request in its own thread) interleave on the
   shared FaceService *)

NThreads == 2

\* self._emb_cache[sid] = emb : a key the dict holds keeps its place
DictSet(items, sid, emb) ==
    LET at == {k \in 1..Len(items) : items[k].sid = sid}
    IN  IF at = {} THEN Append(items, [sid |-> sid, emb |-> emb])
        ELSE [k \in 1..Len(items) |->
                 IF k \in at THEN [sid |-> sid, emb |-> emb] ELSE items[k]]

\* a request thread enters predict_student_id(img): lines 97-99
ThreadCall(img, readFails) ==
    LET e == ComputeEmbedding(img)
    IN  /\ Len(threads) < NThreads
        /\ threads' = Append(threads,
              [pc |-> IF e = NoEmb THEN "done" ELSE "test", e |-> e,
               readFails |-> readFails, rows |-> <<>>, items |-> <<>>,
               scanned |-> FALSE, result |-> NoId])
        /\ UNCHANGED <<hasCv2, hasNN, supabase, local, remote, cache, students,
                       timetable, ledger, now, session, last>>

\* line 102: if self._emb_cache is None
ThreadTest(t) ==
    /\ threads[t].pc = "test"
    /\ threads' = [threads EXCEPT ![t].pc = IF cache.loaded THEN "scan" ELSE "assign"]
    /\ UNCHANGED <<hasCv2, hasNN, supabase, local, remote, cache, students,
                   timetable, ledger, now, session, last>>

\* line 103: self._emb_cache = {}
ThreadAssign(t) ==
    /\ threads[t].pc = "assign"
    /\ cache' = NewCache
    /\ threads' = [threads EXCEPT ![t].pc = "select"]
    /\ UNCHANGED <<hasCv2, hasNN, supabase, local, remote, students,
                   timetable, ledger, now, session, last>>

\* lines 105-108, 119, 125: the select of the table, or the glob of the files
ThreadSelect(t) ==
    /\ threads[t].pc = "select"
    /\ \E ord \in Orders(Keys(RebuildSource(threads[t].readFails))) :
          threads' = [threads EXCEPT
              ![t].pc = "fill",
              ![t].rows = LoadRows(threads[t].readFails, ord)]
    /\ UNCHANGED <<hasCv2, hasNN, supabase, local, remote, cache, students,
                   timetable, ledger, now, session, last>>

\* lines 109-114, 121, 127: one row is put in the dict self._emb_cache names;
\* when the attribute is None by now the item assignment raises TypeError,
\* caught by the `except Exception: continue` of the row
ThreadFill(t) ==
    /\ threads[t].pc = "fill"
    /\ IF threads[t].rows = <<>>
       THEN /\ threads' = [threads EXCEPT ![t].pc = "scan"]
            /\ UNCHANGED cache
       ELSE LET row == Head(threads[t].rows)
            IN  /\ cache' = IF cache.loaded
                            THEN [cache EXCEPT !.items = DictSet(@, row.sid, row.emb)]
                            ELSE cache
                /\ threads' = [threads EXCEPT ![t].rows = Tail(@)]
    /\ UNCHANGED <<hasCv2, hasNN, supabase, local, remote, students,
                   timetable, ledger, now, session, last>>

\* lines 131-162: list(self._emb_cache.items()) is taken and scanned; when
\* the attribute is None by now, None.items() raises AttributeError outside
\* every try block of the method
ThreadScan(t) ==
    /\ threads[t].pc = "scan"
    /\ threads' = IF cache.loaded
                  THEN [threads EXCEPT
                          ![t].pc = "done",
                          ![t].items = cache.items,
                          ![t].scanned = TRUE,
                          ![t].result = Accept(Scan(cache.items, threads[t].e,
                                                    1, NoBest))]
                  ELSE [threads EXCEPT ![t].pc = "raised"]
    /\ UNCHANGED <<hasCv2, hasNN, supabase, local, remote, cache, students,
                   timetable, ledger, now, session, last>>

InitThreads ==
    /\ InitDeployed(BOOLEAN, BOOLEAN)
    /\ timetable = TwoSlots
    /\ session = [student_id |-> NoId, attendance_authorized |-> TRUE]

NextThreads ==
    \/ \E img \in CallImages, readFails \in BOOLEAN :
          ThreadCall(img, readFails)
    \/ \E t \in DOMAIN threads : ThreadTest(t)
    \/ \E t \in DOMAIN threads : ThreadAssign(t)
    \/ \E t \in DOMAIN threads : ThreadSelect(t)
    \/ \E t \in DOMAIN threads : ThreadFill(t)
    \/ \E t \in DOMAIN threads : ThreadScan(t)

\* up to NThreads concurrent predict_student_id calls on the deployment
SpecThreads == InitThreads /\ [][NextThreads]_vars

\* student 1 is logged in and sends new photos while requests are matched
InitInvalidate ==
    /\ InitDeployed(BOOLEAN, BOOLEAN)
    /\ timetable = TwoSlots
    /\ session = [student_id |-> 1, attendance_authorized |-> TRUE]

NextInvalidate ==
    \/ \E img \in EnrolledFaces : ThreadCall(img, FALSE)
    \/ \E t \in DOMAIN threads : ThreadTest(t)
    \/ \E t \in DOMAIN threads : ThreadAssign(t)
    \/ \E t \in DOMAIN threads : ThreadSelect(t)
    \/ \E t \in DOMAIN threads : ThreadFill(t)
    \/ \E t \in DOMAIN threads : ThreadScan(t)
    \/ \E photo \in NewPhotos, upsertFails \in BOOLEAN :
          StudentProfile(photo, FALSE, upsertFails)

\* concurrent predict_student_id calls and enrolments
SpecInvalidate == InitInvalidate /\ [][NextInvalidate]_vars

---------------------------------------------------------------------------
(* attendance_recognize with its ledger check and its insert as separate
   steps of a request thread: the query of lines 611-615 and the
   db.session.add / commit of lines 627-628 are two database statements *)

\* lines 537-607 of a request: the frames are matched, the student and the
\* slot looked up; the thread stands before the query of line 611
RequestEnter(frames) ==
    /\ session.attendance_authorized
    /\ hasCv2
    /\ frames # <<>>
    /\ Len(threads) < NThreads
    /\ \E ord \in Orders(Keys(RebuildSource(FALSE))) :
       LET p == PredictAll(frames, 1,
                           [cache |-> cache, preds |-> <<>>, decoded |-> 0,
                            embedded |-> 0],
                           FALSE, ord)
           student_id == IF p.preds = <<>> THEN NoId ELSE Majority(p.preds)
       IN  /\ cache' = p.cache
           /\ IF student_id = NoId \/ ~StudentFound(student_id)
              THEN threads' = Append(threads,
                      [pc |-> "done", student_id |-> student_id,
                       subject_id |-> NoId, date |-> now.day,
                       message |-> IF student_id = NoId THEN "face not recognized"
                                   ELSE "student not found"])
              ELSE \E rows \in SortedRows(SlotRows(student_id, Weekday(now.day))) :
                   LET r == FindSlot(rows, 1, Strftime(now.time))
                   IN  threads' = Append(threads,
                          [pc |-> IF r.subject_id \in SubjectIds
                                  THEN "check" ELSE "done",
                           student_id |-> student_id,
                           subject_id |-> r.subject_id, date |-> now.day,
                           message |-> IF r.subject_id \in SubjectIds
                                       THEN "" ELSE "no matching class"])
    /\ UNCHANGED <<hasCv2, hasNN, supabase, local, remote, students,
                   timetable, ledger, now, session, last>>

\* lines 611-617: existing = Attendance.query.filter(...).first()
RequestCheck(t) ==
    /\ threads[t].pc = "check"
    /\ threads' = [threads EXCEPT
          ![t].pc = IF Existing(threads[t].student_id, threads[t].subject_id,
                                threads[t].date)
                    THEN "done" ELSE "insert",
          ![t].message = IF Existing(threads[t].student_id, threads[t].subject_id,
                                     threads[t].date)
                         THEN "attendance already marked" ELSE ""]
    /\ UNCHANGED <<hasCv2, hasNN, supabase, local, remote, cache, students,
                   timetable, ledger, now, session, last>>

\* lines 619-628: db.session.add(att); db.session.commit()
RequestInsert(t) ==
    /\ threads[t].pc = "insert"
    /\ ledger' = AddRow(Att(threads[t].student_id, threads[t].subject_id,
                            threads[t].date, "face"))
    /\ threads' = [threads EXCEPT ![t].pc = "done",
                                  ![t].message = "attendance marked"]
    /\ UNCHANGED <<hasCv2, hasNN, supabase, local, remote, cache, students,
                   timetable, now, session, last>>

InitRace ==
    /\ InitDeployed({TRUE}, BOOLEAN)
    /\ timetable = TwoSlots
    /\ session = [student_id |-> NoId, attendance_authorized |-> TRUE]

NextRace ==
    \/ \E f \in PresentedFaces :
          RequestEnter(<<f>>)
    \/ \E t \in DOMAIN threads : RequestCheck(t)
    \/ \E t \in DOMAIN threads : RequestInsert(t)
    \/ \E time \in {600, 720} : Tick(0, time)

\* up to NThreads concurrent recognitions
SpecRace == InitRace /\ [][NextRace]_vars

---------------------------------------------------------------------------
(* Properties of the face service *)

\* the references scanned by the last predict_student_id call: the cache
\* is left as the call scanned it
Scanned == cache.items

\* the references of the query's shape: those a distance is computed for
Comparable == {i \in DOMAIN Scanned : Scanned[i].emb.shape = last.e.shape}

DistOf(i) == CosineScore(Scanned[i].emb, last.e)

\* the references no other comparable reference is nearer than
Nearest == {i \in Comparable : \A j \in Comparable : ~ScoreLess(DistOf(j), DistOf(i))}

\* student id s holds no embedding in durable storage
NoReference(s) == local[s] = NoEmb /\ remote[s] = NoEmb

\* C1: once the embedding of a student is deleted (no local file, no remote
\* row), no predict_student_id call returns the id of that student, also
\* when the cache was loaded before the deletion.
C1_DeletedNeverReturned ==
    (last.op = "predict" /\ last.result # NoId) => ~NoReference(last.result)

\* C2: an enroll_from_path call that returns True leaves the cache absent,
\* with or without a remote replica and whether or not the remote write
\* succeeded.
C2_EnrollInvalidatesCache ==
    (last.op = "enroll" /\ last.ok) => ~cache.loaded

\* C3: a predict_student_id call that follows a successful enrolment of
\* identity X with embedding E (E written to the local store and, when a
\* replica is configured, to the replica), and whose query embedding is E,
\* returns X when no other identity holds E as its reference.
C3_EnrollThenMatch ==
    [][(/\ last.op = "enroll" /\ last.ok
        /\ local[last.sid] = last.e
        /\ supabase => remote[last.sid] = last.e
        /\ last'.op = "predict" /\ last'.e = last.e
        /\ \A y \in StudentIds \ {last.sid} :
              /\ local[y] # last.e
              /\ remote[y] # last.e
              /\ \A i \in DOMAIN cache.items :
                    cache.items[i].sid = y => cache.items[i].emb # last.e)
       => last'.result = last.sid]_vars

\* C8: predict_student_id returns the identity of a nearest reference if
\* some reference has a distance to the query and the nearest distance is
\* not above the cosine threshold; otherwise (no embedding, no reference of
\* the query's shape, or a nearest distance above the threshold) it returns
\* no match.
C8_NearestWithReject ==
    last.op = "predict" =>
        IF /\ last.e # NoEmb
           /\ Comparable # {}
           /\ \E i \in Nearest : ~ScoreAbove(DistOf(i), ThresholdNN)
        THEN \E i \in Nearest : last.result = Scanned[i].sid
        ELSE last.result = NoId

\* a predict call that returned the second of two references of the query's
\* shape, the first being farther
C8_Witness ==
    /\ last.op = "predict"
    /\ last.result # NoId
    /\ Cardinality(Comparable) = 2
    /\ Len(Scanned) = 2
    /\ Scanned[2].sid = last.result
    /\ ScoreLess(DistOf(2), DistOf(1))

\* C9: predict_student_id never returns a reference whose shape differs
\* from the query's, and a shape mismatch raises nothing to the caller.
C9_NoCrossVariantMatch ==
    last.op = "predict" =>
        /\ ~last.best.raised
        /\ last.result # NoId =>
              \A i \in DOMAIN Scanned :
                  Scanned[i].sid = last.result => Scanned[i].emb.shape = last.e.shape

\* a predict call that scanned a reference of the other shape whose content
\* equals the query's, and one of its own shape that it returned
C9_Witness ==
    /\ last.op = "predict"
    /\ last.result # NoId
    /\ \E i \in DOMAIN Scanned :
          /\ Scanned[i].emb.shape # last.e.shape
          /\ Scanned[i].emb.vec = last.e.vec
          /\ Scanned[i].sid # last.result

\* C10: for a fallback-shape query matched against a fallback-shape
\* reference, predict_student_id uses the L2 distance (the candidate is not
\* tagged cosine).
C10_FallbackUsesL2 ==
    (/\ last.op = "predict"
     /\ last.e.shape = FallbackShape
     /\ last.best.id # NoId) => ~last.best.is_cosine

---------------------------------------------------------------------------
(* Properties of attendance_recognize *)

\* the number of verdicts of the last burst that are x
CountOf(x) == Cardinality({i \in DOMAIN last.preds : last.preds[i] = x})

\* C4: for a non-empty list of n verdicts, identity X is accepted iff X is
\* a student id whose count k satisfies k > n // 2, which is 2k > n; when
\* no identity is accepted the answer is 'face not recognized'.
C4_StrictMajority ==
    (last.op = "recognize" /\ last.preds # <<>>) =>
        /\ \A X \in StudentIds :
              /\ last.result = X <=> CountOf(X) > Len(last.preds) \div 2
              /\ last.result = X <=> 2 * CountOf(X) > Len(last.preds)
        /\ last.result = NoId <=> last.message = "face not recognized"

\* the burst [A, A, B, B]: the largest bucket holds n // 2 and is rejected
C4_Witness ==
    /\ last.op = "recognize"
    /\ last.preds = <<1, 1, 2, 2>>
    /\ last.result = NoId
    /\ last.message = "face not recognized"

\* C5: a frame that fails to decode and a frame whose embedding extraction
\* fails are both left out of the count: n, the number of verdicts, is the
\* number of frames that produced an embedding.
C5_FailedFramesSkipped ==
    (last.op = "recognize" /\ last.status \in {200, 404}) =>
        Len(last.preds) = last.embedded

\* 'HH:MM' read as minutes after midnight
Minutes(str) == (str[1] * 10 + str[2]) * 60 + str[3] * 10 + str[4]

\* the interval of slot r holds the clock time, both ends included
Holds(r) == Minutes(r.start_time) <= now.time /\ now.time <= Minutes(r.end_time)

\* C6: for a recognised student the slot selected is a slot of the student
\* and of today's weekday whose interval start <= time <= end holds the
\* clock time, and no such slot starts earlier; when no slot holds the time
\* none is selected.
C6_FirstSlotInclusive ==
    (last.op = "recognize" /\ last.status = 200 /\ last.result # NoId) =>
        LET rows == SlotRows(last.result, Weekday(now.day))
        IN  IF \E r \in rows : Holds(r)
            THEN /\ last.slot \in rows
                 /\ Holds(last.slot)
                 /\ \A r \in rows :
                       Holds(r) =>
                           Minutes(last.slot.start_time) <= Minutes(r.start_time)
            ELSE last.slot = NoSlot

\* slots 09:00-10:00 and 10:00-11:00 at 10:00: the slot selected is the
\* one that ends at 10:00
C6_Witness ==
    /\ last.op = "recognize"
    /\ now.time = 600
    /\ \E s1, s2 \in SubjectIds :
          /\ s1 # s2
          /\ SlotRows(1, Weekday(now.day)) =
                {Slot(1, s1, Weekday(now.day), 540, 600),
                 Slot(1, s2, Weekday(now.day), 600, 660)}
          /\ last.slot = Slot(1, s1, Weekday(now.day), 540, 600)

\* the ledger holds a row, of any method, for (student, subject, date)
HasRow(student_id, subject_id, date) ==
    \E a \in BagToSet(ledger) :
        a.student_id = student_id /\ a.subject_id = subject_id /\ a.date = date

\* no (student, subject, date) has two rows written by the face recognition
FaceUnique ==
    \A a \in BagToSet(ledger) : a.method = "face" => ledger[a] = 1

\* C7: a recognition that resolves to a (student, subject, date) the ledger
\* already holds a row for, of any method, adds no row and answers
\* 'attendance already marked'; the ledger never holds two method='face'
\* rows of one (student, subject, date).
C7_AlreadyMarked ==
    /\ []FaceUnique
    /\ [][(/\ last'.op = "recognize"
           /\ last'.result # NoId
           /\ last'.subject_id \in SubjectIds
           /\ HasRow(last'.result, last'.subject_id, now.day))
          => (ledger' = ledger /\ last'.message = "attendance already marked")]_vars

\* a recognition answered 'attendance already marked' while the ledger held
\* only a manual row of the student, subject and date
C7_Witness ==
    /\ last.op = "recognize"
    /\ last.message = "attendance already marked"
    /\ CopiesIn(Att(last.result, last.subject_id, now.day, "manual"), ledger) >= 1
    /\ Att(last.result, last.subject_id, now.day, "face") \notin BagToSet(ledger)

\* the first position of the scan that holds a nearest reference
FirstNearest == CHOOSE i \in Nearest : \A j \in Nearest : i <= j

\* C19: the candidate of the scan is the first reference, in scan order,
\* among those at the least distance: a later reference at the same distance
\* does not replace it.
C19_FirstOfTies ==
    (last.op = "predict" /\ last.e # NoEmb /\ Comparable # {}) =>
        last.best.id = Scanned[FirstNearest].sid

\* two references at the same distance of the query: the first is returned
C19_Witness ==
    /\ last.op = "predict"
    /\ Len(Scanned) = 2
    /\ Nearest = {1, 2}
    /\ Scanned[1].sid # Scanned[2].sid
    /\ last.result = Scanned[1].sid

\* the references a rebuild is to load: the rows of the table that hold an
\* embedding when a client is configured and its select succeeds, the files
\* otherwise
Expected(readFails) ==
    IF supabase /\ ~readFails
    THEN {[sid |-> s, emb |-> remote[s]] :
             s \in {x \in StudentIds : remote[x] \notin {NoEmb, EmptyEmb}}}
    ELSE {[sid |-> s, emb |-> local[s]] :
             s \in {x \in StudentIds : local[x] # NoEmb}}

\* C20: a predict_student_id call that finds the cache absent leaves it
\* loaded with the rows of the table that hold an embedding (client
\* configured, select succeeded) or with the local files (no client, or the
\* select raised), and answers in both cases.
C20_RebuildFromStorage ==
    [][\A img \in Images, readFails \in BOOLEAN :
          (/\ last'.op = "predict"
           /\ ~cache.loaded
           /\ ComputeEmbedding(img) # NoEmb
           /\ Predict(img, readFails))
          => (/\ cache'.loaded
              /\ {cache'.items[i] : i \in DOMAIN cache'.items} = Expected(readFails)
              /\ Len(cache'.items) = Cardinality(Expected(readFails))
              /\ ~last'.best.raised)]_vars

\* a rebuild from a table that holds a row with an empty embedding and a
\* row with an embedding: the cache holds the second alone
C20_Witness ==
    /\ supabase
    /\ last.op = "predict"
    /\ ~last.warm
    /\ \E s \in StudentIds : remote[s] = EmptyEmb
    /\ Len(cache.items) = 1
    /\ remote[cache.items[1].sid] = cache.items[1].emb
    /\ local[cache.items[1].sid] # cache.items[1].emb

---------------------------------------------------------------------------
(* Properties of enroll_from_path *)

\* C12: enroll_from_path answers True only if the embedding it produced is
\* in durable storage afterwards, in the local file or in the remote row of
\* the student.
C12_TrueOnlyIfStored ==
    (last.op = "enroll" /\ last.ok) =>
        (local[last.sid] = last.e \/ remote[last.sid] = last.e)

\* photo yields an embedding: the enrolment reaches its writes
Enrollable(photo) ==
    hasCv2 /\ photo # Undecodable /\ ComputeEmbedding(photo) # NoEmb

\* C13: an enrolment whose remote upsert fails (the local write succeeding)
\* still answers True and leaves the new embedding in the local file of the
\* student.
C13_RemoteFailureNotFatal ==
    [][\A photo \in EnrollPhotos :
          (/\ last'.op = "enroll"
           /\ supabase
           /\ Enrollable(photo)
           /\ \/ RegisterStudent(photo, FALSE, TRUE)
              \/ StudentProfile(photo, FALSE, TRUE))
          => (/\ last'.ok
              /\ local'[last'.sid] = ComputeEmbedding(photo))]_vars

\* an enrolment answered True with the embedding in the local file and not
\* in the remote table of the configured client
C13_Witness ==
    /\ supabase
    /\ last.op = "enroll"
    /\ last.ok
    /\ local[last.sid] = last.e
    /\ remote[last.sid] # last.e

\* C14: a step of predict_student_id or of attendance_recognize leaves the
\* local files and the remote rows as they were; a step that changes either
\* store is an enrolment or a profile deletion.
C14_RecognitionReadsOnly ==
    [][/\ last'.op \in {"predict", "recognize"} =>
            (local' = local /\ remote' = remote)
       /\ (local' # local \/ remote' # remote) =>
            last'.op \in {"enroll", "delete"}]_vars

\* a recognition that rebuilt the cache from a store holding a reference and
\* matched the student
C14_Witness ==
    /\ last.op = "recognize"
    /\ ~last.warm
    /\ last.result \in StudentIds
    /\ cache.loaded
    /\ cache.items # <<>>

\* C15: with the neural capability every embedding _compute_embedding
\* returns is a neural embedding, and without it a fallback vector: a frame
\* the neural algorithm derives nothing from yields no embedding.
C15_OneVariantPerProcess ==
    (last.op \in {"predict", "enroll"} /\ last.e # NoEmb) =>
        last.e.shape = (IF hasNN THEN NNShape ELSE FallbackShape)

---------------------------------------------------------------------------
(* Properties of the cache under concurrent calls *)

\* the references of durable storage (in SpecThreads the local files and,
\* when a client is configured, the table hold the same references)
StoredItems == {[sid |-> s, emb |-> local[s]] : s \in Keys(local)}

ItemSet(items) == {items[i] : i \in DOMAIN items}

\* C11: a predict_student_id call that has scanned references has scanned
\* the complete reference set of durable storage, never a part of it, also
\* while another call is rebuilding the cache.
C11_NoPartialCache ==
    \A t \in DOMAIN threads :
        (threads[t].pc = "done" /\ threads[t].scanned) =>
            ItemSet(threads[t].items) = StoredItems

---------------------------------------------------------------------------
(* Properties of the answers of attendance_recognize *)

\* C16: a recognition none of whose frames decodes (no frame, or only
\* undecodable frames) returns at line 544 or line 568 with no identity: no
\* slot is looked up and the ledger is as before.
C16_NoFrameNoDecision ==
    [][(last'.op = "recognize" /\ last'.decoded = 0) =>
          /\ last'.message \in {"no file(s)", "bad image frames"}
          /\ last'.preds = <<>>
          /\ last'.result = NoId
          /\ last'.slot = NoSlot
          /\ last'.subject_id = NoId
          /\ ledger' = ledger]_vars

\* a burst of two frames, neither of which decodes
C16_Witness ==
    /\ last.op = "recognize"
    /\ last.submitted = 2
    /\ last.decoded = 0
    /\ last.message = "bad image frames"

\* C17: a recognition that answers 'attendance marked' adds one row, the
\* row of the student, subject and date it answers; every other recognition
\* leaves the ledger as it was.
C17_LedgerOnlyWhenMarked ==
    [][last'.op = "recognize" =>
          IF last'.message = "attendance marked"
          THEN ledger' = ledger (+)
                   SetToBag({Att(last'.result, last'.subject_id, now.day, "face")})
          ELSE ledger' = ledger]_vars

\* the recognition of a student whose row is gone, the ledger holding a row
C17_Witness ==
    /\ last.op = "recognize"
    /\ last.status = 404
    /\ last.message = "student not found"
    /\ ledger # EmptyBag

\* the orderings of the verdicts of a list
Perms(preds) ==
    {[i \in DOMAIN preds |-> preds[f[i]]] : f \in Permutations(DOMAIN preds)}

\* C18: the decision of the consensus, accepted identity or rejection, is
\* the same for every ordering of the verdicts of the burst.
C18_OrderIndependent ==
    (last.op = "recognize" /\ last.preds # <<>>) =>
        \A q \in Perms(last.preds) : Majority(q) = last.result

\* verdicts [2, 1]: most_common puts 2 first, and 1 first for [1, 2]; both
\* orderings are rejected
C18_Witness ==
    /\ last.op = "recognize"
    /\ last.preds = <<2, 1>>
    /\ MostCommon(<<2, 1>>).key # MostCommon(<<1, 2>>).key
    /\ last.result = NoId

\* C23: a recognition adds a ledger row only for a student of the students
\* table; one that resolves to an id the table does not hold (the id of a
\* deleted student in a cache loaded before the deletion) answers 404
\* 'student not found' and leaves the ledger as it was.
C23_NoRowForDeletedStudent ==
    [][last'.op = "recognize" =>
          /\ ledger' # ledger => last'.result \in students
          /\ (last'.result # NoId /\ last'.result \notin students) =>
                /\ last'.status = 404
                /\ last'.message = "student not found"
                /\ ledger' = ledger]_vars

\* a recognition on a warm cache that resolved to student 2 after the
\* deletion of student 2
C23_Witness ==
    /\ last.op = "recognize"
    /\ last.warm
    /\ last.result = 2
    /\ 2 \notin students
    /\ \E i \in DOMAIN cache.items : cache.items[i].sid = 2
    /\ last.message = "student not found"

\* the session holds attendance_authorized
Authorized == session.attendance_authorized

\* C24: the session becomes authorized only by the correct access code sent
\* to attendance_page and is not authorized after logout; a recognition or
\* a manual entry adds a ledger row only in an authorized session, and in a
\* session that is not authorized both answer 403 and leave the ledger.
C24_AuthorizedSessionsOnly ==
    [][/\ (~Authorized /\ Authorized') =>
             (last'.op = "attendance_page" /\ last'.ok)
       /\ last'.op = "logout" => ~Authorized'
       /\ (last'.op \in {"recognize", "manual"} /\ ledger' # ledger) => Authorized
       /\ (last'.op \in {"recognize", "manual"} /\ ~Authorized) =>
             (last'.status = 403 /\ ledger' = ledger)]_vars

\* a recognition answered 403 in a session that had added a row before its
\* logout
C24_Witness ==
    /\ last.op = "recognize"
    /\ last.status = 403
    /\ ~Authorized
    /\ ledger # EmptyBag

---------------------------------------------------------------------------
(* Properties of concurrent requests *)

\* C22: no predict_student_id call raises to its caller, also when an
\* enrolment sets the cache to None between the call's test or rebuild of
\* the cache and its scan: every call ends with an identity or no match.
C22_PredictNeverRaises ==
    \A t \in DOMAIN threads : threads[t].pc # "raised"

\* C21: whatever the interleaving of the checks and inserts of concurrent
\* recognitions, the ledger holds at most one row of a student, subject and
\* date.
C21_OneRowUnderRace ==
    \A a, b \in BagToSet(ledger) :
        (a.student_id = b.student_id /\ a.subject_id = b.subject_id
         /\ a.date = b.date) =>
            (a = b /\ CopiesIn(a, ledger) = 1)

=============================================================================
